---- MODULE Spec2Model ----
(***************************************************************************)
(* Model of the Organizer scheduling engine (src/organizer.py) and of the *)
(* stores and calendar client it uses.                                     *)
(*                                                                         *)
(* Time.  A datetime is an integer number of seconds counted from 00:00   *)
(* of today (day 0); a datetime.time is a number of seconds in            *)
(* 0 .. DaySec-1.  datetime.now() is read once per run (the variable      *)
(* now): the run is taken to be short against the clock.                  *)
(***************************************************************************)
EXTENDS Integers, Sequences, FiniteSets, TLC

VARIABLES
    all_slots,        \* SolverSchedule.all_slots : the Work templates
    all_tasks,        \* SolverSchedule.all_tasks
    calendar,         \* the events held by the calendar service
    now,              \* datetime.datetime.now()
    options,          \* SolverSchedule.Options
    pc,               \* position of the pipeline
    number_days,      \* SolverSchedule.number_days
    available_slots,  \* SolverSchedule.available_slots : list of DaySlot
    status,           \* SolverSchedule.status
    x,                \* solver values of x[slot, task] : task -> set of slots
    strict,           \* solver values of strict[slot]
    penalties,        \* solver values of penalties[slot]
    solution,         \* list of SlotAssignment returned by get_solution
    task_events,      \* list of TaskEvent returned by solve_all
    fs,               \* one call of PreProcessor.find_free_spots
    est,              \* one call of PreProcessor.estimate_days_feasibility
    seg,              \* one call of SolverOrganizer._find_segment_position
    db                \* the window store and the scheduler page

vars == <<all_slots, all_tasks, calendar, now, options, pc, number_days,
          available_slots, status, x, strict, penalties, solution,
          task_events, fs, est, seg, db>>

pipeVars == <<all_slots, all_tasks, calendar, now, options, pc, number_days,
              available_slots, status, x, strict, penalties, solution,
              task_events>>

-----------------------------------------------------------------------------
(* Bounds of the model *)

MaxTasks == 2        \* tasks in a task list
MaxEvents == 2       \* events in the calendar / in an event list
MaxEstDay == 14      \* iterations of the estimator loop that are followed
MaxDays == 17        \* largest horizon for which solve_problems is followed

-----------------------------------------------------------------------------
(* datetime arithmetic *)

SecPerMin == 60
MinPerHour == 60
MinPerDay == 1440
DaySec == MinPerDay * SecPerMin

HMS(h, m, s) == (h * 60 + m) * SecPerMin + s
HM(h, m) == HMS(h, m, 0)

\* the date of the day dropped: the time of day taken on today's date
CombineToday(day, t) == t

\* datetime.datetime.combine(date.today() + timedelta(days=day), t)
Combine(day, t) == day * DaySec + t

\* datetime.time() of a datetime: the date is dropped
TimeOf(dt) == dt % DaySec

\* int(delta.total_seconds() / 60): truncation towards zero
TruncMinutes(sec) == IF sec >= 0 THEN sec \div SecPerMin ELSE -((-sec) \div SecPerMin)

Minutes(m) == m * SecPerMin

Abs(v) == IF v >= 0 THEN v ELSE -v
Min2(a, b) == IF a <= b THEN a ELSE b
Max2(a, b) == IF a >= b THEN a ELSE b

RECURSIVE SumSeq(_)
SumSeq(s) == IF s = <<>> THEN 0 ELSE Head(s) + SumSeq(Tail(s))

RECURSIVE Flatten(_)
Flatten(ss) == IF ss = <<>> THEN <<>> ELSE Head(ss) \o Flatten(Tail(ss))

Range(s) == {s[i] : i \in DOMAIN s}

-----------------------------------------------------------------------------
(* Slot and Task (Interface/pages/databases) *)

Slot(id, start, end) == [id |-> id, start |-> start, end |-> end]

\* Slot.get_duration, in seconds
GetDuration(slot) == slot.end - slot.start

Task(id, priority, estimated_time) ==
    [id |-> id, priority |-> priority, estimated_time |-> estimated_time]

-----------------------------------------------------------------------------
(* PreProcessor: capacity and demand *)

ComputeSlotsMinutes(slots) ==
    SumSeq([i \in DOMAIN slots |-> TruncMinutes(GetDuration(slots[i]))])

ComputeTasksMinutes(tasks) ==
    SumSeq([i \in DOMAIN tasks |-> tasks[i].estimated_time])

\* the guard of the while loop of estimate_days_feasibility
EstLoopCondLe(slots_minutes, number_minutes_tasks) ==
    slots_minutes <= number_minutes_tasks

EstLoopCond(slots_minutes, number_minutes_tasks) ==
    slots_minutes < number_minutes_tasks

\* the loop of estimate_days_feasibility from the state (day, slots_minutes);
\* it does not end when the capacity is 0 and the demand is positive
RECURSIVE EstLoop(_, _, _, _)
EstLoop(day, slots_minutes, number_minutes_slots, number_minutes_tasks) ==
    IF EstLoopCond(slots_minutes, number_minutes_tasks)
    THEN EstLoop(day + 1, slots_minutes + number_minutes_slots,
                 number_minutes_slots, number_minutes_tasks)
    ELSE day

\* whether estimate_days_feasibility returns at all
EstTerminates(slots, tasks) ==
    ComputeSlotsMinutes(slots) > 0
    \/ ~EstLoopCond(ComputeSlotsMinutes(slots), ComputeTasksMinutes(tasks))

EstimateDaysFeasibility(slots, tasks) ==
    EstLoop(1, ComputeSlotsMinutes(slots), ComputeSlotsMinutes(slots),
            ComputeTasksMinutes(tasks))

-----------------------------------------------------------------------------
(* PreProcessor.find_free_spots *)

\* the if / elif chain applied to one available interval and one event;
\* intervals and events are <<start, end>> pairs
SubtractFromInterval(interval, event) ==
    LET interval_start == interval[1]
        interval_end == interval[2]
        event_start == event[1]
        event_end == event[2]
    IN  IF event_start <= interval_start /\ interval_start < event_end
        THEN << <<event_end, interval_end>> >>
        ELSE IF event_start <= interval_end /\ interval_end < event_end
        THEN << <<interval_start, event_start>> >>
        ELSE IF interval_start < event_start /\ event_end < interval_end
        THEN << <<interval_start, event_start>>, <<event_end, interval_end>> >>
        ELSE << interval >>

\* one iteration of the outer loop: new_intervals built from available_intervals
SubtractEvent(available_intervals, event) ==
    Flatten([i \in DOMAIN available_intervals |->
                SubtractFromInterval(available_intervals[i], event)])

RECURSIVE SubtractEvents(_, _)
SubtractEvents(available_intervals, events) ==
    IF events = <<>> THEN available_intervals
    ELSE SubtractEvents(SubtractEvent(available_intervals, Head(events)), Tail(events))

FindFreeSpots(slot, events, day) ==
    SubtractEvents(<< <<Combine(day, slot.start), Combine(day, slot.end)>> >>, events)

-----------------------------------------------------------------------------
(* Querier (Calendar/queries.py) and the events the generator keeps *)

APPLICATION_COLORS == {"1", "2", "3", "4", "5"}

\* a calendar event whose start and end are 'dateTime' values; colorId "-1"
\* stands for an event that has no colorId
Event(id, start, end, colorId) ==
    [id |-> id, start |-> start, end |-> end, colorId |-> colorId,
     whole_date |-> FALSE]

\* a calendar event of one whole day: its start and end are 'date' values,
\* the day and the day after
DateEvent(id, day, colorId) ==
    [id |-> id, start |-> Combine(day, 0), end |-> Combine(day + 1, 0),
     colorId |-> colorId, whole_date |-> TRUE]

\* the first event of a set in the order of the list call (by start time)
FirstEvent(events) ==
    CHOOSE e \in events :
        \A f \in events :
            \/ e.start < f.start
            \/ (e.start = f.start /\ e.end < f.end)
            \/ (e.start = f.start /\ e.end = f.end /\ e.id <= f.id)

RECURSIVE OrderByStartTime(_)
OrderByStartTime(events) ==
    IF events = {} THEN <<>>
    ELSE <<FirstEvent(events)>> \o OrderByStartTime(events \ {FirstEvent(events)})

\* the default of the parameter days of get_next_events
DefaultDays == 10

\* Querier.get_next_events(days): the events that end after timeMin = now and
\* start before timeMax = now + days, ordered by start time
GetNextEvents(days) ==
    OrderByStartTime({e \in calendar : e.end > now /\ e.start < now + days * DaySec})

\* PreProcessor.filter_events
FilterEvents(upcoming_events) ==
    SelectSeq(upcoming_events, LAMBDA event : event.colorId \notin APPLICATION_COLORS)

\* lines 150-157: strptime with DATE_FORMAT raises ValueError on the 'date'
\* value of a whole-day event, which has no time and no zone
RaisesValueError(slots, tasks) ==
    LET upcoming_events ==
            FilterEvents(GetNextEvents(EstimateDaysFeasibility(slots, tasks) + 2))
    IN  \E i \in DOMAIN upcoming_events : upcoming_events[i].whole_date

\* occupied_times of generate_days_slots (lines 136-159)
OccupiedTimes(slots, tasks) ==
    LET upcoming_events ==
            FilterEvents(GetNextEvents(EstimateDaysFeasibility(slots, tasks) + 2))
    IN  [i \in DOMAIN upcoming_events |->
            <<upcoming_events[i].start, upcoming_events[i].end>>]

-----------------------------------------------------------------------------
(* PreProcessor.compute_margins and PreProcessor.generate_days_slots *)

DaySlot(day, slot, hard_length, hard_start_time, hard_end_time) ==
    [day |-> day, slot |-> slot, hard_length |-> hard_length,
     hard_start_time |-> hard_start_time, hard_end_time |-> hard_end_time]

SetMax(S) == CHOOSE v \in S : \A w \in S : w <= v
SetMin(S) == CHOOSE v \in S : \A w \in S : v <= w

ComputeMargins(slot, events, day) ==
    LET slot_date == Combine(day, 0)
        slot_start == Combine(day, slot.start)
        slot_end == Combine(day, slot.end)
        previous_ends == {events[i][2] : i \in {j \in DOMAIN events : events[j][2] <= slot_start}}
        next_starts == {events[i][1] : i \in {j \in DOMAIN events : events[j][1] >= slot_end}}
        start_margin ==
            IF previous_ends = {}
            THEN TruncMinutes(slot_start - slot_date)
            ELSE TruncMinutes(slot_start - SetMax(previous_ends))
        end_margin ==
            IF next_starts = {}
            THEN TruncMinutes((slot_date + HM(23, 59)) - slot_end)
            ELSE TruncMinutes(SetMin(next_starts) - slot_end)
    IN  <<start_margin, end_margin>>

\* lines 166-171: a template of day 0 that ended before now is skipped
SkipsSlot(slot, day) == day = 0 /\ slot.end < TimeOf(now)

\* lines 166-174: slot_today, the template with its start moved to now on day 0
SlotToday(slot, day) ==
    Slot(slot.id,
         IF day = 0 /\ slot.start < TimeOf(now) THEN TimeOf(now) ELSE slot.start,
         slot.end)

\* lines 178-196: the DaySlot built from one free spot
DaySlotOf(slot, cleared_slot, occupied_times, day) ==
    LET clear_slot == Slot(slot.id, TimeOf(cleared_slot[1]), TimeOf(cleared_slot[2]))
        margins == ComputeMargins(clear_slot, occupied_times, day)
        margin_low == margins[1]
        margin_high == margins[2]
        hard_low == cleared_slot[1] - Minutes(margin_low)
        hard_high == cleared_slot[2] + Minutes(margin_high)
        slot_length == TruncMinutes(GetDuration(clear_slot))
        hard_length == slot_length + margin_high + margin_low
    IN  DaySlot(day, clear_slot, hard_length, hard_low, hard_high)

\* lines 164-196: the DaySlots of one template on one day
DaySlotsOfSlot(slot, occupied_times, day) ==
    IF SkipsSlot(slot, day) THEN <<>>
    ELSE LET free_spots == FindFreeSpots(SlotToday(slot, day), occupied_times, day)
         IN  [i \in DOMAIN free_spots |->
                DaySlotOf(slot, free_spots[i], occupied_times, day)]

GenerateDaysSlots(slots, tasks, days) ==
    LET occupied_times == OccupiedTimes(slots, tasks)
    IN  Flatten([d \in 1..days |->
            Flatten([i \in DOMAIN slots |->
                DaySlotsOfSlot(slots[i], occupied_times, d - 1)])])

-----------------------------------------------------------------------------
(* SolverSchedule: the CP-SAT model.  The values of x are kept per task:   *)
(* xv[task] is the set of the slots s with x[s, task] = 1.  The solver is  *)
(* an external library: it returns any assignment of the variables that    *)
(* satisfies the constraints added to the model, with status OPTIMAL when   *)
(* the assignment maximises the objective and FEASIBLE otherwise, and       *)
(* INFEASIBLE when there is none.                                           *)

\* define_variables, line 431: the upper bound of penalties[slot]
MaxTaskTime(tasks) == SetMax({tasks[t].estimated_time : t \in DOMAIN tasks})

\* line 443: AddExactlyOne over the slots, for one task
AssignedAtLeastOnce(column) == Cardinality(column) >= 1

AssignedExactlyOnce(column) == Cardinality(column) = 1

\* lines 448-449: sum_tasks_slot
SumTasksSlot(xv, s, tasks) ==
    SumSeq([t \in DOMAIN tasks |->
                IF s \in xv[t] THEN tasks[t].estimated_time ELSE 0])

\* lines 457, 463, 466, 470: the soft length of a slot
SoftLength(dayslot) == TruncMinutes(GetDuration(dayslot.slot))

\* line 452
HardBoundFree(sum_tasks_slot, dayslot) == TRUE

HardBound(sum_tasks_slot, dayslot) == sum_tasks_slot <= dayslot.hard_length

\* the constraints of lines 454-464: the penalty of a slot that is not
\* strict is left free
SoftBoundNoViolation(is_strict, penalty, sum_tasks_slot, dayslot) ==
    /\ is_strict => sum_tasks_slot <= SoftLength(dayslot)
    /\ is_strict => penalty = 0
    /\ ~is_strict => sum_tasks_slot > SoftLength(dayslot)

\* lines 454-468: the constraints on strict[slot] and penalties[slot]
SoftBound(is_strict, penalty, sum_tasks_slot, dayslot) ==
    /\ is_strict => sum_tasks_slot <= SoftLength(dayslot)
    /\ is_strict => penalty = 0
    /\ ~is_strict => sum_tasks_slot > SoftLength(dayslot)
    /\ ~is_strict => penalty >= sum_tasks_slot - SoftLength(dayslot)

\* line 470
StrictBound(sum_tasks_slot, dayslot) == sum_tasks_slot <= SoftLength(dayslot)

\* the columns of x that satisfy the constraint of line 443
Columns(slots) == {c \in SUBSET (DOMAIN slots) : AssignedExactlyOnce(c)}

\* the values of x that satisfy the constraints in which only x occurs
AssignmentsOfX(slots, tasks, soft_margins) ==
    {xv \in [DOMAIN tasks -> Columns(slots)] :
        \A s \in DOMAIN slots :
            LET sum_tasks_slot == SumTasksSlot(xv, s, tasks)
            IN  /\ HardBound(sum_tasks_slot, slots[s])
                /\ soft_margins \/ StrictBound(sum_tasks_slot, slots[s])}

\* the values <<strict[s], penalties[s]>> that go with a value of x
SlotChoices(xv, s, slots, tasks) ==
    LET sum_tasks_slot == SumTasksSlot(xv, s, tasks)
    IN  {c \in BOOLEAN \X (0 .. MaxTaskTime(tasks)) :
            SoftBound(c[1], c[2], sum_tasks_slot, slots[s])}

\* the values of <<strict, penalties>> for the slots 1 .. k
RECURSIVE SoftValues(_, _, _, _)
SoftValues(xv, k, slots, tasks) ==
    IF k = 0 THEN {<<>>}
    ELSE {Append(v, c) : v \in SoftValues(xv, k - 1, slots, tasks),
                         c \in SlotChoices(xv, k, slots, tasks)}

\* every assignment of the variables that satisfies define_constraints
Solutions(slots, tasks, soft_margins) ==
    IF soft_margins
    THEN UNION {{[x |-> xv,
                  strict |-> [s \in DOMAIN slots |-> v[s][1]],
                  penalties |-> [s \in DOMAIN slots |-> v[s][2]]] :
                    v \in SoftValues(xv, Len(slots), slots, tasks)} :
                xv \in AssignmentsOfX(slots, tasks, soft_margins)}
    ELSE {[x |-> xv, strict |-> <<>>, penalties |-> <<>>] :
                xv \in AssignmentsOfX(slots, tasks, soft_margins)}

\* define_values, doubled so that the 0.5 of priority 6 is an integer
MultipliersTwice(priority) ==
    LET base == CASE priority = 0 -> <<200000, 0, 0, 0, 0, 0>>
                  [] priority = 1 -> <<200, 100, 20, 20, 20, 20>>
                  [] priority = 2 -> <<100, 50, 10, 10, 10, 10>>
                  [] priority = 3 -> <<80, 40, 6, 6, 6, 6>>
                  [] priority = 4 -> <<60, 30, 4, 4, 4, 4>>
                  [] priority = 5 -> <<40, 20, 2, 2, 2, 2>>
                  [] priority = 6 -> <<20, 10, 1, 1, 1, 1>>
    IN  base \o [i \in 1..10 |-> base[Len(base)]]

\* define_objective, line 516: MULTIPLIERS[task.priority][slot.day] raises
\* IndexError when slot.day is not an index of the list
RaisesIndexError(slots, tasks) ==
    \E s \in DOMAIN slots, t \in DOMAIN tasks :
        slots[s].day + 1 > Len(MultipliersTwice(tasks[t].priority))

\* the objective without the value of the assignments: the penalties alone
ObjectivePenaltiesOnly(sol, slots, tasks) == - 2 * SumSeq(sol.penalties)

\* define_objective, doubled: the sum of the objective terms
ObjectiveTwice(sol, slots, tasks) ==
    SumSeq([t \in DOMAIN tasks |->
        SumSeq([s \in DOMAIN slots |->
            IF s \in sol.x[t]
            THEN MultipliersTwice(tasks[t].priority)[slots[s].day + 1] ELSE 0])])
    - 2 * SumSeq(sol.penalties)

\* the assignments that satisfy the constraints, each with its objective
ScoredSolutions(slots, tasks, soft_margins) ==
    {<<ObjectiveTwice(sol, slots, tasks), sol>> :
        sol \in Solutions(slots, tasks, soft_margins)}

\* get_solution, lines 577-581: the tasks of a slot, in the order of all_tasks
RECURSIVE AssignedTasks(_, _, _)
AssignedTasks(xv, s, tasks) ==
    IF tasks = <<>> THEN <<>>
    ELSE AssignedTasks(xv, s, SubSeq(tasks, 1, Len(tasks) - 1))
         \o (IF s \in xv[Len(tasks)] THEN <<tasks[Len(tasks)]>> ELSE <<>>)

SlotAssignment(slot, tasks) == [slot |-> slot, tasks |-> tasks]

GetSolution(xv, slots, tasks) ==
    [s \in DOMAIN slots |-> SlotAssignment(slots[s], AssignedTasks(xv, s, tasks))]

-----------------------------------------------------------------------------
(* SolverOrganizer: placement *)

\* _find_segment_position, doubled: the result counts half minutes
FindSegmentPositionTwice(A, B, a, b, d) ==
    LET overlap_length == Min2(B, b) - Max2(A, a)
        max_shift_right == B - d
    IN  IF overlap_length <= 0 THEN A + B
        ELSE IF overlap_length >= d
        THEN Max2(2 * A, Min2(2 * max_shift_right, a + b - d))
        ELSE Max2(2 * A, Min2(2 * max_shift_right, 2 * (b - overlap_length)))

\* the block always at the first proposal, or at the segment position
ProposalStartFirst(assignment) ==
    LET day == Combine(assignment.slot.day, 0)
        tasks_length == ComputeTasksMinutes(assignment.tasks)
        slot_length == ComputeSlotsMinutes(<<assignment.slot.slot>>)
    IN  IF tasks_length <= slot_length
        THEN day + assignment.slot.slot.start
        ELSE day + (SecPerMin \div 2) *
                FindSegmentPositionTwice(TruncMinutes(assignment.slot.hard_start_time - day),
                                         TruncMinutes(assignment.slot.hard_end_time - day),
                                         TruncMinutes(assignment.slot.slot.start),
                                         TruncMinutes(assignment.slot.slot.end),
                                         tasks_length)

\* lines 611-648: proposal_start, the start of the block of tasks
ProposalStart(assignment) ==
    LET day == Combine(assignment.slot.day, 0)
        tasks_length == ComputeTasksMinutes(assignment.tasks)
        slot_length == ComputeSlotsMinutes(<<assignment.slot.slot>>)
        proposal_start1 == day + assignment.slot.slot.start
        proposal_start2 == day + assignment.slot.slot.start
                            + Minutes(slot_length - tasks_length)
        midday == day + HM(12, 0)
        slot_start == day + assignment.slot.slot.start
        slot_end == day + assignment.slot.slot.end
        hard_start == assignment.slot.hard_start_time
        hard_end == assignment.slot.hard_end_time
    IN  IF tasks_length <= slot_length
        THEN IF Abs(proposal_start1 - midday) < Abs(proposal_start2 - midday)
             THEN proposal_start1
             ELSE proposal_start2
        ELSE day + (SecPerMin \div 2) *
                FindSegmentPositionTwice(TruncMinutes(hard_start - day),
                                         TruncMinutes(hard_end - day),
                                         TruncMinutes(slot_start - day),
                                         TruncMinutes(slot_end - day),
                                         tasks_length)

TaskEvent(start, end, task) == [start |-> start, end |-> end, task |-> task]

\* every task laid at proposal_start: proposal_start is not advanced
PlaceTasksAtStart(proposal_start, tasks) ==
    [k \in DOMAIN tasks |->
        TaskEvent(proposal_start,
                  proposal_start + Minutes(tasks[k].estimated_time), tasks[k])]

\* lines 652-657: the tasks laid one after the other from proposal_start
RECURSIVE PlaceTasks(_, _)
PlaceTasks(proposal_start, tasks) ==
    IF tasks = <<>> THEN <<>>
    ELSE <<TaskEvent(proposal_start,
                     proposal_start + Minutes(Head(tasks).estimated_time),
                     Head(tasks))>>
         \o PlaceTasks(proposal_start + Minutes(Head(tasks).estimated_time), Tail(tasks))

\* SolverOrganizer.solve
Solve(assignment) == PlaceTasks(ProposalStart(assignment), assignment.tasks)

-----------------------------------------------------------------------------
(* Input pools *)

TaskDurations == {1, 2}
TaskPriorities == {1}

\* the task lists of at most n tasks; the id of a task is its row number
TaskLists(n) ==
    UNION {{[i \in 1..k |-> Task(i, f[i][1], f[i][2])] :
                f \in [1..k -> TaskPriorities \X TaskDurations]} : k \in 0..n}

TemplateA == Slot(1, HM(11, 58), HM(12, 2))
TemplateB == Slot(2, HM(12, 3), HM(12, 5))
TemplateC == Slot(3, HM(12, 0), HM(12, 1))

\* whether a list of <<start, end>> pairs is ordered by start (orderBy=startTime)
SortedByStart(events) ==
    \A i, j \in DOMAIN events : i < j => events[i][1] <= events[j][1]

-----------------------------------------------------------------------------
(* One call of estimate_days_feasibility, one loop iteration per step *)

EstIdle == [pc |-> "idle"]

EstSlotLists == {<<>>, <<TemplateA>>, <<TemplateB>>, <<TemplateC>>,
                 <<TemplateA, TemplateB>>}

EstInit ==
    est \in {[pc |-> "call", slots |-> s, tasks |-> t, day |-> 0,
              slots_minutes |-> 0, number_minutes_slots |-> 0,
              number_minutes_tasks |-> 0] :
                s \in EstSlotLists, t \in TaskLists(MaxTasks + 1)}

\* lines 108-112
EstEnter ==
    /\ est.pc = "call"
    /\ est' = [est EXCEPT !.pc = "loop",
                          !.number_minutes_tasks = ComputeTasksMinutes(est.tasks),
                          !.number_minutes_slots = ComputeSlotsMinutes(est.slots),
                          !.day = 1,
                          !.slots_minutes = ComputeSlotsMinutes(est.slots)]
    /\ UNCHANGED <<fs, seg, db, pipeVars>>

\* lines 113-115; the iterations followed are capped by MaxEstDay
EstIterate ==
    /\ est.pc = "loop"
    /\ EstLoopCond(est.slots_minutes, est.number_minutes_tasks)
    /\ est.day < MaxEstDay
    /\ est' = [est EXCEPT !.slots_minutes = @ + est.number_minutes_slots,
                          !.day = @ + 1]
    /\ UNCHANGED <<fs, seg, db, pipeVars>>

\* line 117
EstReturn ==
    /\ est.pc = "loop"
    /\ ~EstLoopCond(est.slots_minutes, est.number_minutes_tasks)
    /\ est' = [est EXCEPT !.pc = "return"]
    /\ UNCHANGED <<fs, seg, db, pipeVars>>

-----------------------------------------------------------------------------
(* One call of find_free_spots, one event per step *)

FsIdle == [pc |-> "idle"]

FsMinutes == {HM(11, 57), HM(11, 58), HM(11, 59), HM(12, 0), HM(12, 1),
              HM(12, 2), HM(12, 3)}

\* the events of a day: every interval of the grid, and one event that
\* lasts until the next day
FsEvents(day) ==
    {<<Combine(day, p[1]), Combine(day, p[2])>> :
        p \in {q \in FsMinutes \X FsMinutes : q[1] < q[2]}}
    \cup {<<Combine(day, HM(11, 0)), Combine(day + 1, HM(12, 0))>>}

FsEventLists(day) ==
    {evs \in UNION {[1..k -> FsEvents(day)] : k \in 0..MaxEvents} : SortedByStart(evs)}

FsInit ==
    fs \in UNION {{[pc |-> "call", slot |-> s, events |-> evs, day |-> d, k |-> 0,
                    prev |-> <<>>, pieces |-> <<>>, available_intervals |-> <<>>] :
                        s \in {TemplateA, TemplateC}, evs \in FsEventLists(d)} :
                   d \in {0, 1}}

\* lines 266-269
FsEnter ==
    /\ fs.pc = "call"
    /\ fs' = [fs EXCEPT !.pc = "loop",
                        !.available_intervals =
                            << <<Combine(fs.day, fs.slot.start),
                                 Combine(fs.day, fs.slot.end)>> >>]
    /\ UNCHANGED <<est, seg, db, pipeVars>>

\* lines 272-284, for the event events[k + 1]
FsIterate ==
    /\ fs.pc = "loop"
    /\ fs.k < Len(fs.events)
    /\ LET event == fs.events[fs.k + 1]
           new == [i \in DOMAIN fs.available_intervals |->
                     SubtractFromInterval(fs.available_intervals[i], event)]
       IN  fs' = [fs EXCEPT !.k = @ + 1,
                            !.prev = fs.available_intervals,
                            !.pieces = new,
                            !.available_intervals = Flatten(new)]
    /\ UNCHANGED <<est, seg, db, pipeVars>>

\* line 287
FsReturn ==
    /\ fs.pc = "loop"
    /\ fs.k = Len(fs.events)
    /\ fs' = [fs EXCEPT !.pc = "return"]
    /\ UNCHANGED <<est, seg, db, pipeVars>>

-----------------------------------------------------------------------------
(* One call of SolverOrganizer._find_segment_position(A, B, a, b, d) on    *)
(* integers with A < B, a < b and 0 < d <= B - A                           *)

\* the largest endpoint of the intervals of a call
MaxPos == 4

SegIdle == [pc |-> "idle"]

SegInit ==
    seg \in {[pc |-> "call", A |-> A, B |-> B, a |-> a, b |-> b, d |-> d] :
                A \in 0 .. MaxPos, B \in 0 .. MaxPos,
                a \in 0 .. MaxPos, b \in 0 .. MaxPos, d \in 1 .. MaxPos}
    /\ seg.A < seg.B /\ seg.a < seg.b /\ seg.d <= seg.B - seg.A

\* the call returns; position_twice counts half units
SegReturn ==
    /\ seg.pc = "call"
    /\ seg' = [pc |-> "return", A |-> seg.A, B |-> seg.B, a |-> seg.a,
               b |-> seg.b, d |-> seg.d,
               position_twice |->
                   FindSegmentPositionTwice(seg.A, seg.B, seg.a, seg.b, seg.d)]
    /\ UNCHANGED <<fs, est, db, pipeVars>>

-----------------------------------------------------------------------------
(* The window store (ScheduleDatabase) and the handlers of the scheduler   *)
(* page.  The page reads the whole table at the start of every run, so a   *)
(* handler sees the rows as they are when its button is pressed.           *)

\* the largest ID that the table gives to a row
MaxRowId == 3

\* the times of day that the two time inputs of the page offer
WindowTimes == {HM(9, 0), HM(10, 0), HM(11, 0), HM(12, 0)}

WindowTypes == {"Work", "Free"}

\* str(datetime.time): the text 'HH:MM:SS', kept as its three numbers
StrTime(t) == <<t \div (MinPerHour * SecPerMin), (t \div SecPerMin) % MinPerHour,
               t % SecPerMin>>

\* datetime.datetime.strptime(text, '%H:%M:%S').time()
StrpTime(text) == HMS(text[1], text[2], text[3])

\* check_overlap with the comparisons <= : windows that touch overlap
CheckOverlapInclusive(time1_start, time1_end, time2_start, time2_end) ==
    \/ (time1_start <= time2_end /\ time1_end >= time2_start)
    \/ (time2_start <= time1_end /\ time2_end >= time1_start)

\* check_overlap of check_data (scheduler.py, lines 37-50)
CheckOverlap(time1_start, time1_end, time2_start, time2_end) ==
    IF time1_start < time2_end /\ time1_end > time2_start THEN TRUE
    ELSE IF time2_start < time1_end /\ time2_end > time1_start THEN TRUE
    ELSE IF time1_start = time2_start \/ time1_end = time2_end THEN FALSE
    ELSE FALSE

\* check_data(start_time, end_time, existing_data)
CheckData(start_time, end_time, existing_data) ==
    IF end_time <= start_time THEN FALSE
    ELSE \A row \in existing_data :
            ~CheckOverlap(start_time, end_time,
                          StrpTime(row.START), StrpTime(row.END))

\* ScheduleDatabase.add_data: the row that the INSERT stores
AddData(id, type, start, end) ==
    [ID |-> id, TYPE |-> type, START |-> StrTime(start), END |-> StrTime(end)]

DbIdle == [pc |-> "idle"]

\* the page over the empty table
DbInit == db = [pc |-> "page", rows |-> {}, next_id |-> 1, message |-> "none"]

\* the handler of the button Add (lines 106-113)
Add ==
    /\ db.pc = "page"
    /\ \E sch_type \in WindowTypes, start_date \in WindowTimes,
          end_date \in WindowTimes :
          IF CheckData(start_date, end_date, db.rows)
          THEN /\ db.next_id <= MaxRowId
               /\ db' = [db EXCEPT
                            !.rows = @ \cup {AddData(db.next_id, sch_type,
                                                     start_date, end_date)},
                            !.next_id = @ + 1,
                            !.message = "success"]
          ELSE db' = [db EXCEPT !.message = "error"]
    /\ UNCHANGED <<fs, est, seg, pipeVars>>

\* the handler of the button Delete for the selected row (lines 87-94)
Delete ==
    /\ db.pc = "page"
    /\ \E selected_row \in db.rows :
          db' = [db EXCEPT !.rows = @ \ {selected_row}, !.message = "warning"]
    /\ UNCHANGED <<fs, est, seg, pipeVars>>

-----------------------------------------------------------------------------
(* The pipeline: SolverSchedule(...), solve_problems(), get_solution(),   *)
(* SolverOrganizer.solve_all()                                             *)

SlotLists == {<<TemplateA>>, <<TemplateA, TemplateB>>}

\* two tasks that fill the two templates of a day and two minutes more; they
\* are scheduled with soft margins, without which the first fits no slot
OverflowTasks == <<Task(1, 1, 6), Task(2, 1, 2)>>

Nows == {HMS(11, 57, 0), HMS(11, 59, 30), HMS(12, 2, 0)}

\* user events: event 2 has the colour '3', the others have no colorId;
\* event 6 is a whole-day event of today
EventPool ==
    {Event(1, HM(11, 59), HM(12, 2), "-1"),
     Event(2, HM(11, 58), HM(12, 2), "3"),
     Event(3, HM(12, 3), HM(12, 5), "-1"),
     Event(4, HM(12, 0), HM(12, 1), "-1"),
     Event(5, HM(11, 0), Combine(1, HM(12, 0)), "-1"),
     DateEvent(6, 0, "-1")}

Calendars == {c \in SUBSET EventPool : Cardinality(c) <= MaxEvents}

PipeInit ==
    /\ all_slots \in SlotLists
    /\ all_tasks \in (TaskLists(MaxTasks) \ {<<>>}) \cup {OverflowTasks}
    /\ calendar \in Calendars
    /\ now \in Nows
    /\ options \in [soft_margins : BOOLEAN]
    /\ all_tasks = OverflowTasks => options.soft_margins
    /\ pc = "start"
    /\ number_days = 0
    /\ available_slots = <<>>
    /\ status = "UNKNOWN"
    /\ x = <<>> /\ strict = <<>> /\ penalties = <<>>
    /\ solution = <<>> /\ task_events = <<>>

\* SolverSchedule.__init__ (lines 351-368), then the entry of solve_problems
Construct ==
    /\ pc = "start"
    /\ EstTerminates(all_slots, all_tasks)
    /\ number_days' = EstimateDaysFeasibility(all_slots, all_tasks)
    /\ IF RaisesValueError(all_slots, all_tasks)
       THEN /\ available_slots' = available_slots
            /\ status' = status
            /\ pc' = "ValueError"
       ELSE /\ available_slots' =
                    GenerateDaysSlots(all_slots, all_tasks,
                                      EstimateDaysFeasibility(all_slots, all_tasks))
            /\ status' = "INFEASIBLE"
            /\ pc' = "solve_problems"
    /\ UNCHANGED <<all_slots, all_tasks, calendar, now, options, x, strict,
                   penalties, solution, task_events, fs, est, seg, db>>

\* one iteration of the loop of solve_problems (lines 378-381):
\* _solve_problem, print_solution, number_days += 1.  The model sets no limit
\* on the search, so the solver ends with INFEASIBLE or with OPTIMAL and one
\* of the assignments that maximise the objective.  With soft margins
\* disabled print_solution reads self.penalties[slot_index] (line 558) of the
\* empty dictionary: KeyError leaves solve_problems.  When a DaySlot has a
\* day for which the value table has no entry, define_objective raises
\* IndexError before the solver is called.
SolveProblemsIterate ==
    /\ pc = "solve_problems"
    /\ number_days <= MaxDays
    /\ \E slots \in {GenerateDaysSlots(all_slots, all_tasks, number_days)} :
         /\ available_slots' = slots
         /\ IF RaisesIndexError(slots, all_tasks)
            THEN /\ status' = status
                 /\ x' = <<>> /\ strict' = <<>> /\ penalties' = <<>>
                 /\ number_days' = number_days
                 /\ pc' = "IndexError"
            ELSE \E scored \in {ScoredSolutions(slots, all_tasks, options.soft_margins)} :
                 IF scored = {}
                 THEN /\ status' = "INFEASIBLE"
                      /\ x' = <<>> /\ strict' = <<>> /\ penalties' = <<>>
                      /\ number_days' = number_days + 1
                      /\ pc' = pc
                 ELSE \E best \in {SetMax({p[1] : p \in scored})} :
                      \E sol \in {p[2] : p \in {q \in scored : q[1] = best}} :
                      /\ status' = "OPTIMAL"
                      /\ x' = sol.x /\ strict' = sol.strict /\ penalties' = sol.penalties
                      /\ IF options.soft_margins
                         THEN number_days' = number_days + 1 /\ pc' = "solved"
                         ELSE number_days' = number_days /\ pc' = "KeyError"
    /\ UNCHANGED <<all_slots, all_tasks, calendar, now, options, solution,
                   task_events, fs, est, seg, db>>

\* SolverSchedule.get_solution
CallGetSolution ==
    /\ pc = "solved"
    /\ solution' = GetSolution(x, available_slots, all_tasks)
    /\ pc' = "assigned"
    /\ UNCHANGED <<all_slots, all_tasks, calendar, now, options, number_days,
                   available_slots, status, x, strict, penalties, task_events,
                   fs, est, seg, db>>

\* SolverOrganizer.solve_all
SolveAll(assignments) ==
    Flatten([i \in DOMAIN assignments |-> Solve(assignments[i])])

CallSolveAll ==
    /\ pc = "assigned"
    /\ task_events' = SolveAll(solution)
    /\ pc' = "placed"
    /\ UNCHANGED <<all_slots, all_tasks, calendar, now, options, number_days,
                   available_slots, status, x, strict, penalties, solution,
                   fs, est, seg, db>>

\* strftime("%Y-%m-%dT%H:%M:%S"), lines 109-110 of queries.py: the date, the
\* hour, the minute and the whole second of a datetime
StrfTime(dt) ==
    Combine(dt \div DaySec,
            HMS((dt % DaySec) \div (MinPerHour * SecPerMin),
                ((dt % DaySec) \div SecPerMin) % MinPerHour,
                dt % SecPerMin))

\* Querier.set_event: the event inserted for a TaskEvent.  The calendar
\* gives each inserted event an id of its own: -k for the k-th TaskEvent.
SetEvent(k, start, end) == Event(-k, StrfTime(start), StrfTime(end), "9")

\* SolverOrganizer.set_in_calendar(task_events)
SetInCalendar ==
    /\ pc = "placed"
    /\ calendar' = calendar \cup
            {SetEvent(k, task_events[k].start, task_events[k].end) :
                k \in DOMAIN task_events}
    /\ pc' = "written"
    /\ UNCHANGED <<all_slots, all_tasks, now, options, number_days,
                   available_slots, status, x, strict, penalties, solution,
                   task_events, fs, est, seg, db>>

\* SolverOrganizer.set_in_calendar(task_events) when the calendar service
\* refuses the insert of event k: execute() raises HttpError, nothing in
\* set_event or set_in_calendar catches it, and the loop ends there
SetInCalendarFails ==
    /\ pc = "placed"
    /\ \E k \in DOMAIN task_events :
          calendar' = calendar \cup
              {SetEvent(j, task_events[j].start, task_events[j].end) :
                  j \in 1 .. (k - 1)}
    /\ pc' = "HttpError"
    /\ UNCHANGED <<all_slots, all_tasks, now, options, number_days,
                   available_slots, status, x, strict, penalties, solution,
                   task_events, fs, est, seg, db>>

\* every upcoming event that has a colorId is deleted
DeletedEventsAnyColour ==
    {e \in Range(GetNextEvents(DefaultDays)) : e.colorId # "-1"}

\* the events that Querier.delete_events deletes: those of
\* get_next_events() whose colorId is '9'
DeletedEvents ==
    {e \in Range(GetNextEvents(DefaultDays)) : e.colorId = "9"}

\* Querier.delete_events()
DeleteEvents ==
    /\ pc = "written"
    /\ calendar' = calendar \ DeletedEvents
    /\ pc' = "deleted"
    /\ UNCHANGED <<all_slots, all_tasks, now, options, number_days,
                   available_slots, status, x, strict, penalties, solution,
                   task_events, fs, est, seg, db>>

Init == PipeInit /\ fs = FsIdle /\ est = EstIdle /\ seg = SegIdle /\ db = DbIdle

Next ==
    \/ Construct
    \/ SolveProblemsIterate
    \/ CallGetSolution
    \/ CallSolveAll
    \/ SetInCalendar
    \/ SetInCalendarFails
    \/ DeleteEvents

Spec == Init /\ [][Next]_vars

-----------------------------------------------------------------------------
(* The pipeline over long horizons: one template of one minute a day, tasks *)
(* of up to 17 minutes, and a calendar whose events leave free, on each of  *)
(* the first n days, exactly the minute of the template                     *)

\* the user events until 12:00 today and from 12:01 of day d to 12:00 of
\* day d + 1, for the n days d = 0 .. n - 1; they have no colorId
DailyBlocks(n) ==
    {Event(10, HM(11, 58), HM(12, 0), "-1")}
    \cup {Event(11 + d, Combine(d, HM(12, 1)), Combine(d + 1, HM(12, 0)), "-1") :
            d \in 0 .. (n - 1)}

LongCalendars == {DailyBlocks(n) : n \in {0, 1, 10, 11}}

LongPriorities == {0, 1, 6}

LongTaskLists ==
    {<<Task(1, p, d)>> : p \in LongPriorities, d \in {1, 2, 11, 17}}
    \cup {<<Task(1, p, d), Task(2, q, 1)>> :
            p \in LongPriorities, q \in LongPriorities, d \in {1, 11}}
    \cup {<<Task(1, 1, 1), Task(2, 1, 1), Task(3, 1, 1)>>}

InitLong ==
    /\ all_slots = <<TemplateC>>
    /\ all_tasks \in LongTaskLists
    /\ calendar \in LongCalendars
    /\ now = HM(11, 57)
    /\ options \in [soft_margins : BOOLEAN]
    /\ pc = "start"
    /\ number_days = 0
    /\ available_slots = <<>>
    /\ status = "UNKNOWN"
    /\ x = <<>> /\ strict = <<>> /\ penalties = <<>>
    /\ solution = <<>> /\ task_events = <<>>
    /\ fs = FsIdle /\ est = EstIdle /\ seg = SegIdle /\ db = DbIdle

SpecLong == InitLong /\ [][Next]_vars

-----------------------------------------------------------------------------
(* Specifications of the single calls *)

PipeIdle ==
    /\ all_slots = <<>> /\ all_tasks = <<>> /\ calendar = {} /\ now = 0
    /\ options = [soft_margins |-> TRUE]
    /\ pc = "idle" /\ number_days = 0 /\ available_slots = <<>>
    /\ status = "UNKNOWN" /\ x = <<>> /\ strict = <<>> /\ penalties = <<>>
    /\ solution = <<>> /\ task_events = <<>>

EstNext == EstEnter \/ EstIterate \/ EstReturn

InitEst == EstInit /\ fs = FsIdle /\ seg = SegIdle /\ db = DbIdle /\ PipeIdle

SpecEst == InitEst /\ [][EstNext]_vars

FsNext == FsEnter \/ FsIterate \/ FsReturn

InitFree == FsInit /\ est = EstIdle /\ seg = SegIdle /\ db = DbIdle /\ PipeIdle

SpecFree == InitFree /\ [][FsNext]_vars

DbNext == Add \/ Delete

InitStore == DbInit /\ fs = FsIdle /\ est = EstIdle /\ seg = SegIdle /\ PipeIdle

SpecStore == InitStore /\ [][DbNext]_vars

SegNext == SegReturn

InitSeg == SegInit /\ fs = FsIdle /\ est = EstIdle /\ db = DbIdle /\ PipeIdle

SpecSeg == InitSeg /\ [][SegNext]_vars

-----------------------------------------------------------------------------
(* Claims on find_free_spots *)

\* two <<start, end>> intervals share more than a point
Overlaps(a, b) == a[1] < b[2] /\ b[1] < a[2]

FsInterval == <<Combine(fs.day, fs.slot.start), Combine(fs.day, fs.slot.end)>>

\* the minutes [t, t + 60] that make up the template interval of the call
FsCells == {FsInterval[1] + Minutes(k) :
                k \in 0 .. (TruncMinutes(FsInterval[2] - FsInterval[1]) - 1)}

FsCellFree(t) == \A e \in Range(fs.events) : ~Overlaps(<<t, t + SecPerMin>>, e)

\* C6: find_free_spots returns the set difference of the template interval
\* and the union of the events: every returned interval is non-empty, lies in
\* the template interval and meets no event, and every minute of the template
\* interval that no event covers lies in a returned interval.
C6_SetDifference ==
    fs.pc = "return" =>
        /\ \A i \in DOMAIN fs.available_intervals :
              LET a == fs.available_intervals[i]
              IN  /\ a[1] < a[2]
                  /\ FsInterval[1] <= a[1] /\ a[2] <= FsInterval[2]
                  /\ \A e \in Range(fs.events) : ~Overlaps(a, e)
        /\ \A t \in FsCells :
              FsCellFree(t) =>
                  \E i \in DOMAIN fs.available_intervals :
                      /\ fs.available_intervals[i][1] <= t
                      /\ t + SecPerMin <= fs.available_intervals[i][2]

\* the event clips the interval on the right, its end included
ClipsRight(event, interval) ==
    /\ interval[1] < event[1] /\ event[1] < interval[2]
    /\ interval[2] <= event[2]

\* C10: an event that clips an available interval I on the right
\* (I.start < E.start < I.end <= E.end) replaces I by [I.start, E.start].
C10_ClipRight ==
    (fs.pc = "loop" /\ fs.k >= 1) =>
        \A i \in DOMAIN fs.prev :
            ClipsRight(fs.events[fs.k], fs.prev[i]) =>
                fs.pieces[i] = << <<fs.prev[i][1], fs.events[fs.k][1]>> >>

-----------------------------------------------------------------------------
(* Claims on estimate_days_feasibility *)

\* C7: with a positive capacity the estimator returns the least D >= 1 with
\* D * capacity >= demand, and its loop ends within the iterations followed.
C7_LeastHorizon ==
    LET capacity == ComputeSlotsMinutes(est.slots)
        demand == ComputeTasksMinutes(est.tasks)
    IN  (est.pc \in {"loop", "return"} /\ capacity > 0) =>
            /\ est.pc = "return" =>
                  /\ est.day >= 1
                  /\ est.day * capacity >= demand
                  /\ est.day > 1 => (est.day - 1) * capacity < demand
            /\ (est.pc = "loop" /\ est.day = MaxEstDay) =>
                  ~EstLoopCond(est.slots_minutes, est.number_minutes_tasks)

C7_Witness ==
    /\ est.pc = "return" /\ est.day = 3
    /\ Len(est.tasks) = 3
    /\ ComputeSlotsMinutes(est.slots) = 2
    /\ est.day * ComputeSlotsMinutes(est.slots) > ComputeTasksMinutes(est.tasks)

\* C8: with no template and a positive demand the estimator fails with
\* NoCapacity; it is never found in its loop, an iteration done and the loop
\* guard still true.
C8_NoCapacity ==
    (est.pc # "idle" /\ est.pc # "call" /\ est.slots = <<>>
        /\ ComputeTasksMinutes(est.tasks) > 0) =>
            /\ est.pc # "return"
            /\ ~(est.pc = "loop" /\ est.day > 1
                    /\ EstLoopCond(est.slots_minutes, est.number_minutes_tasks))

-----------------------------------------------------------------------------
(* Claims on the pipeline *)

Accepted == status \in {"OPTIMAL", "FEASIBLE"}

\* the number of times a task occurs in the task list of assignment i
Occurrences(task, i) ==
    Cardinality({k \in DOMAIN solution[i].tasks : solution[i].tasks[k] = task})

\* C1: when solve_problems ends with OPTIMAL or FEASIBLE, every task of
\* all_tasks occurs in the list returned by get_solution exactly once: in
\* one SlotAssignment, and once in its task list.
C1_TotalAssignment ==
    (pc \in {"assigned", "placed"} /\ Accepted) =>
        /\ Len(solution) = Len(available_slots)
        /\ \A t \in DOMAIN all_tasks :
              SumSeq([i \in DOMAIN solution |-> Occurrences(all_tasks[t], i)]) = 1

C1_Witness ==
    /\ pc = "assigned" /\ Accepted
    /\ Len(all_tasks) = 2
    /\ \E i, j \in DOMAIN solution :
          /\ i # j
          /\ solution[i].tasks = <<all_tasks[1]>>
          /\ solution[j].tasks = <<all_tasks[2]>>

\* C2: in every accepted solution, soft margins enabled or disabled, the
\* durations of the tasks assigned to a DaySlot add up to at most its
\* hard_length.
C2_HardBound ==
    (pc \in {"solved", "KeyError", "assigned", "placed"} /\ Accepted) =>
        \A s \in DOMAIN available_slots :
            SumTasksSlot(x, s, all_tasks) <= available_slots[s].hard_length

C2_Witness ==
    /\ pc = "solved" /\ Accepted
    /\ \E s \in DOMAIN available_slots :
          /\ SumTasksSlot(x, s, all_tasks) = available_slots[s].hard_length
          /\ SumTasksSlot(x, s, all_tasks) > SoftLength(available_slots[s])
          /\ SoftLength(available_slots[s]) > 0

\* the TaskEvents that solve_all appended for assignment i
EventsOf(i) ==
    LET before == SumSeq([j \in 1..(i - 1) |-> Len(solution[j].tasks)])
    IN  SubSeq(task_events, before + 1, before + Len(solution[i].tasks))

\* C3: every TaskEvent lies inside the hard interval of its DaySlot.
C3_Containment ==
    pc = "placed" =>
        \A i \in DOMAIN solution :
            \A k \in DOMAIN EventsOf(i) :
                /\ solution[i].slot.hard_start_time <= EventsOf(i)[k].start
                /\ EventsOf(i)[k].end <= solution[i].slot.hard_end_time

UserOwned(event) == event.colorId \notin APPLICATION_COLORS

\* C4: no TaskEvent intersects a user-owned event of the calendar.
C4_NoOverlapFixed ==
    pc = "placed" =>
        \A k \in DOMAIN task_events :
            \A e \in calendar :
                UserOwned(e) =>
                    ~Overlaps(<<task_events[k].start, task_events[k].end>>,
                              <<e.start, e.end>>)

\* C5: the TaskEvents of one assignment follow the order of its task list,
\* each lasts the estimated time of its task, the first starts at the block
\* start and each other one starts where the one before ends.
C5_Contiguity ==
    pc = "placed" =>
        /\ Len(task_events) = SumSeq([j \in DOMAIN solution |-> Len(solution[j].tasks)])
        /\ \A i \in DOMAIN solution :
              LET events == EventsOf(i)
                  tasks == solution[i].tasks
              IN  \A k \in DOMAIN tasks :
                      /\ events[k].task = tasks[k]
                      /\ events[k].end = events[k].start + Minutes(tasks[k].estimated_time)
                      /\ k = 1 => events[k].start = ProposalStart(solution[i])
                      /\ k > 1 => events[k].start = events[k - 1].end

C5_Witness ==
    /\ pc = "placed"
    /\ \E i \in DOMAIN solution :
          /\ Len(solution[i].tasks) = 2
          /\ solution[i].tasks[1].estimated_time # solution[i].tasks[2].estimated_time
          /\ EventsOf(i)[2].start = EventsOf(i)[1].end

\* the template of a DaySlot, as generate_days_slots passes it to
\* find_free_spots
TemplateOf(dayslot) ==
    SlotToday(all_slots[CHOOSE i \in DOMAIN all_slots :
                            all_slots[i].id = dayslot.slot.id], dayslot.day)

\* C9: a template interval that one fixed event covers entirely yields no
\* DaySlot.
C9_CoveredDropped ==
    pc # "start" =>
        \A s \in DOMAIN available_slots :
            LET dayslot == available_slots[s]
                occupied_times == OccupiedTimes(all_slots, all_tasks)
            IN  \A i \in DOMAIN occupied_times :
                    ~(/\ occupied_times[i][1] <= Combine(dayslot.day, TemplateOf(dayslot).start)
                      /\ Combine(dayslot.day, TemplateOf(dayslot).end) <= occupied_times[i][2])

-----------------------------------------------------------------------------
(* Further claims on find_free_spots *)

\* C11: find_free_spots called with an empty event list returns exactly one
\* interval: the template on the given day, same start and same end.
C11_EmptyEvents ==
    (fs.pc = "return" /\ fs.events = <<>>) =>
        fs.available_intervals =
            << <<fs.day * DaySec + fs.slot.start, fs.day * DaySec + fs.slot.end>> >>

C11_Witness ==
    /\ fs.pc = "return" /\ fs.events = <<>> /\ fs.day = 1
    /\ Len(fs.available_intervals) = 1
    /\ fs.available_intervals[1][1] = DaySec + TemplateA.start

-----------------------------------------------------------------------------
(* Claims on generate_days_slots *)

\* C12: every DaySlot of generate_days_slots has
\* hard_start_time <= start < end <= hard_end_time, and its hard_length is
\* the number of minutes from hard_start_time to hard_end_time.
C12_DaySlotBounds ==
    \A s \in DOMAIN available_slots :
        LET dayslot == available_slots[s]
            start == Combine(dayslot.day, dayslot.slot.start)
            end == Combine(dayslot.day, dayslot.slot.end)
        IN  /\ dayslot.hard_start_time <= start
            /\ start < end
            /\ end <= dayslot.hard_end_time
            /\ dayslot.hard_length =
                    TruncMinutes(dayslot.hard_end_time - dayslot.hard_start_time)

-----------------------------------------------------------------------------
(* Claims on the events written to the calendar *)

\* an event of the calendar that set_event inserted
Written(e) == e.id < 0

\* the tag that set_event writes
WrittenTag == SetEvent(1, 0, 0).colorId

\* C13: every event that set_event created is discarded by filter_events in
\* a later run of generate_days_slots, and every event that has no tag is
\* kept.
C13_WrittenDiscarded ==
    pc = "written" =>
        LET upcoming_events ==
                GetNextEvents(EstimateDaysFeasibility(all_slots, all_tasks) + 2)
            kept == Range(FilterEvents(upcoming_events))
        IN  \A e \in Range(upcoming_events) :
                /\ Written(e) => e \notin kept
                /\ e.colorId = "-1" => e \in kept

\* an event that get_next_events() returns: it ends after now and starts
\* within the next DefaultDays days
Upcoming(e) == e.end > now /\ e.start < now + DefaultDays * DaySec

\* C14: delete_events deletes an upcoming event if and only if its tag is
\* the tag that set_event writes; events with another tag or with no tag
\* stay in the calendar.
C14_DeletesTagged ==
    [][(pc = "written" /\ pc' = "deleted") =>
            \A e \in calendar :
                Upcoming(e) => (e \notin calendar' <=> e.colorId = WrittenTag)]_vars

C14_Witness ==
    /\ pc = "deleted"
    /\ task_events # <<>>
    /\ \E e \in calendar : e.colorId = "3"
    /\ \E e \in calendar : e.colorId = "-1"
    /\ \A e \in calendar : ~Written(e)

\* C15: set_in_calendar followed by delete_events leaves the calendar as
\* it was before the write: the written events are gone and the events
\* that were there before remain.
C15_RoundTrip ==
    [][(pc = "written" /\ pc' = "deleted") =>
            calendar' = {e \in calendar : ~Written(e)}]_vars

-----------------------------------------------------------------------------
(* Claims on the assignment model *)

\* C16: with soft margins enabled, in every accepted solution and for every
\* slot s with soft length L: strict[s] implies sum <= L and penalty 0;
\* not strict[s] implies sum > L and penalty >= sum - L; and in an optimal
\* solution the penalty is max(0, sum - L).
C16_SoftMargins ==
    (pc = "solved" /\ options.soft_margins /\ Accepted) =>
        \A s \in DOMAIN available_slots :
            LET sum == SumTasksSlot(x, s, all_tasks)
                L == SoftLength(available_slots[s])
            IN  /\ strict[s] => (sum <= L /\ penalties[s] = 0)
                /\ ~strict[s] => (sum > L /\ penalties[s] >= sum - L)
                /\ status = "OPTIMAL" => penalties[s] = Max2(0, sum - L)

C16_Witness ==
    /\ pc = "solved" /\ options.soft_margins /\ status = "OPTIMAL"
    /\ \E s \in DOMAIN available_slots :
          ~strict[s] /\ penalties[s] > 0
    /\ \E s \in DOMAIN available_slots :
          strict[s] /\ SumTasksSlot(x, s, all_tasks) > 0

\* C17: with soft margins enabled, every assignment of the tasks to the
\* DaySlots that gives each task exactly one slot and keeps the sum of each
\* slot within its hard_length can be completed with values of strict and
\* penalties that satisfy the constraints of the model.
C17_HardBoundDefinesFeasibility ==
    (pc \in {"solve_problems", "solved"} /\ options.soft_margins) =>
        \A xv \in [DOMAIN all_tasks -> Columns(available_slots)] :
            (\A s \in DOMAIN available_slots :
                SumTasksSlot(xv, s, all_tasks) <= available_slots[s].hard_length)
            => SoftValues(xv, Len(available_slots), available_slots, all_tasks) # {}

-----------------------------------------------------------------------------
(* Claims on solve_problems and on the objective *)

\* C18: when the status is neither OPTIMAL nor FEASIBLE, solve_problems
\* regenerates the DaySlots, enlarges the horizon by exactly one day and
\* retries; and the loop ends with an accepted solution or with
\* Infeasible, never in another way.
C18_RetryTerminates ==
    /\ [][(pc = "solve_problems" /\ pc' = "solve_problems") =>
            /\ number_days' = number_days + 1
            /\ available_slots' =
                    GenerateDaysSlots(all_slots, all_tasks, number_days)]_vars
    /\ [](pc \in {"start", "solve_problems", "Infeasible"} \/ Accepted)

\* the value table is defined for the priority and the day index
ValueDefined(priority, day) == day + 1 <= Len(MultipliersTwice(priority))

\* C19: the value table is defined for every priority 0 .. 6 and for the
\* day index of every DaySlot of a horizon that the retry loop reaches, and
\* from day 2 on it is constant per priority.
C19_ValueTable ==
    \A priority \in 0 .. 6 :
        \A s \in DOMAIN available_slots :
            LET day == available_slots[s].day
            IN  /\ ValueDefined(priority, day)
                /\ day >= 2 =>
                      MultipliersTwice(priority)[day + 1] = MultipliersTwice(priority)[3]

\* the day of the DaySlot that the assignment xv gives to task t
DayOf(xv, t) == available_slots[CHOOSE s \in xv[t] : TRUE].day

UrgentToday(xv) ==
    Cardinality({t \in DOMAIN all_tasks :
                    all_tasks[t].priority = 0 /\ DayOf(xv, t) = 0})

C21_FixedEventsCoverHorizon ==
    (pc = "solve_problems" /\ number_days <= MaxDays) =>
        \A e \in calendar :
            (UserOwned(e) /\ e.end > now /\ e.start < Combine(number_days, 0))
            => <<e.start, e.end>> \in Range(OccupiedTimes(all_slots, all_tasks))

\* the block of assignment i is placed by the branch tasks_length <=
\* slot_length of SolverOrganizer.solve
InSoftBranch(i) ==
    /\ solution[i].tasks # <<>>
    /\ ComputeTasksMinutes(solution[i].tasks)
          <= ComputeSlotsMinutes(<<solution[i].slot.slot>>)

\* the start of the block of assignment i, its soft slot and its noon
BlockStart(i) == EventsOf(i)[1].start
SoftStart(i) == Combine(solution[i].slot.day, solution[i].slot.slot.start)
SoftEnd(i) == Combine(solution[i].slot.day, solution[i].slot.slot.end)
Noon(i) == Combine(solution[i].slot.day, HM(12, 0))

\* the second candidate of the code: the slot start moved right by the whole
\* minutes of the slot that the tasks leave free
SecondStart(i) ==
    SoftStart(i) + Minutes(ComputeSlotsMinutes(<<solution[i].slot.slot>>)
                            - ComputeTasksMinutes(solution[i].tasks))

\* C22: in the branch T <= L the block starts at slot.start or at
\* slot.end - T, at the one for which the midpoint of the block is nearer to
\* 12:00 of the day.
C22_NearerMidpoint ==
    pc = "placed" =>
        \A i \in DOMAIN solution :
            InSoftBranch(i) =>
                LET T == Minutes(ComputeTasksMinutes(solution[i].tasks))
                    candidates == {SoftStart(i), SoftEnd(i) - T}
                IN  /\ BlockStart(i) \in candidates
                    /\ \A q \in candidates :
                          Abs(2 * BlockStart(i) + T - 2 * Noon(i))
                              <= Abs(2 * q + T - 2 * Noon(i))

\* C22, amended: in the branch T <= L the block starts at slot.start when
\* slot.start is strictly nearer to 12:00 of the day than slot.start plus the
\* whole minutes the tasks leave free in the slot, and at the latter
\* otherwise.
C22_NearerStart ==
    pc = "placed" =>
        \A i \in DOMAIN solution :
            InSoftBranch(i) =>
                BlockStart(i) =
                    IF Abs(SoftStart(i) - Noon(i)) < Abs(SecondStart(i) - Noon(i))
                    THEN SoftStart(i)
                    ELSE SecondStart(i)

C22_Witness ==
    /\ pc = "placed"
    /\ \E i, j \in DOMAIN solution :
          /\ InSoftBranch(i) /\ InSoftBranch(j)
          /\ SecondStart(i) # SoftStart(i) /\ BlockStart(i) = SecondStart(i)
          /\ SecondStart(j) # SoftStart(j) /\ BlockStart(j) = SoftStart(j)

\* C27: with soft margins disabled solve_problems completes without raising,
\* and in the accepted solution the durations of the tasks assigned to a
\* slot add up to at most the soft length of the slot.
C27_SoftDisabledCompletes ==
    ~options.soft_margins =>
        /\ pc # "KeyError"
        /\ (pc \in {"solved", "assigned", "placed"} /\ Accepted) =>
              \A s \in DOMAIN available_slots :
                  SumTasksSlot(x, s, all_tasks) <= SoftLength(available_slots[s])

\* C29: no TaskEvent starts before the current time.
C29_NoStartBeforeNow ==
    pc = "placed" =>
        \A k \in DOMAIN task_events : task_events[k].start >= now

\* C28: the TaskEvents placed for two different DaySlots never overlap in
\* time.
C28_SlotsDisjoint ==
    pc = "placed" =>
        \A i, j \in DOMAIN solution :
            i # j =>
                \A k \in DOMAIN EventsOf(i) :
                    \A l \in DOMAIN EventsOf(j) :
                        ~(/\ EventsOf(i)[k].start < EventsOf(j)[l].end
                          /\ EventsOf(j)[l].start < EventsOf(i)[k].end)

\* C26: on day 0 a template whose end is <= the current time yields no
\* DaySlot, and every DaySlot of day 0 starts at or after the current time
\* and before its own end.
C26_DayZeroClip ==
    pc # "start" =>
        \A s \in DOMAIN available_slots :
            available_slots[s].day = 0 =>
                /\ \A i \in DOMAIN all_slots :
                      all_slots[i].id = available_slots[s].slot.id
                          => all_slots[i].end > TimeOf(now)
                /\ Combine(0, available_slots[s].slot.start) >= now
                /\ available_slots[s].slot.start < available_slots[s].slot.end

\* C24: when one insert of set_in_calendar fails after an earlier insert
\* succeeded, the writer goes on with the remaining TaskEvents: if no other
\* insert fails, every TaskEvent but the failed one is in the calendar.
C24_WriterContinues ==
    (pc = "HttpError" /\ \E e \in calendar : Written(e)) =>
        Cardinality({e \in calendar : Written(e)}) = Len(task_events) - 1

\* C25: a user event of whole-date values is accepted by generate_days_slots:
\* the generator does not fail, and no DaySlot lies inside the date of the
\* event.
C25_WholeDateAccepted ==
    \A e \in calendar :
        (e.whole_date /\ UserOwned(e) /\ e.end > now /\ pc # "start") =>
            /\ pc # "ValueError"
            /\ \A s \in DOMAIN available_slots :
                  LET dayslot == available_slots[s]
                  IN  ~(/\ e.start <= Combine(dayslot.day, dayslot.slot.start)
                        /\ Combine(dayslot.day, dayslot.slot.end) <= e.end)

-----------------------------------------------------------------------------
(* Claims on _find_segment_position *)

\* twice the length that the segment of length d at position_twice / 2 has
\* in common with [a, b]
OverlapTwice(position_twice, a, b, d) ==
    Max2(0, Min2(position_twice + 2 * d, 2 * b) - Max2(position_twice, 2 * a))

\* C23: for A < B, a < b and 0 < d <= B - A the returned position p has
\* A <= p <= B - d and the segment [p, p + d] has the largest overlap with
\* [a, b] among the positions of [A, B - d]; when [A, B] and [a, b] do not
\* overlap, p is the midpoint of [A, B] minus d / 2.
C23_SegmentPosition ==
    seg.pc = "return" =>
        /\ 2 * seg.A <= seg.position_twice
        /\ seg.position_twice <= 2 * (seg.B - seg.d)
        /\ \A q \in seg.A .. (seg.B - seg.d) :
              OverlapTwice(2 * q, seg.a, seg.b, seg.d)
                  <= OverlapTwice(seg.position_twice, seg.a, seg.b, seg.d)
        /\ Min2(seg.B, seg.b) - Max2(seg.A, seg.a) <= 0 =>
              seg.position_twice = seg.A + seg.B - seg.d

-----------------------------------------------------------------------------
(* Claims on the window store *)

\* the window of a stored row, read back from its two texts
RowInterval(row) == <<StrpTime(row.START), StrpTime(row.END)>>

\* C30: from the empty store, after any sequence of guarded Adds and of
\* Deletes, every stored window has end > start and no two stored windows
\* overlap, windows that touch being allowed; and check_data rejects a new
\* window exactly when its end is <= its start or it overlaps a stored
\* window.
C30_StoreInvariant ==
    db.pc = "page" =>
        /\ \A r \in db.rows : RowInterval(r)[1] < RowInterval(r)[2]
        /\ \A r1, r2 \in db.rows :
              r1 # r2 => ~Overlaps(RowInterval(r1), RowInterval(r2))
        /\ \A start_time, end_time \in WindowTimes :
              ~CheckData(start_time, end_time, db.rows) <=>
                  \/ end_time <= start_time
                  \/ \E r \in db.rows :
                        Overlaps(<<start_time, end_time>>, RowInterval(r))

\* a rejected Add over a store that holds two touching windows, after a
\* Delete
C30_Witness ==
    /\ db.pc = "page"
    /\ db.message = "error"
    /\ db.next_id > Cardinality(db.rows) + 1
    /\ \E r1, r2 \in db.rows :
          /\ r1.TYPE # r2.TYPE
          /\ RowInterval(r1)[2] = RowInterval(r2)[1]

====
